---- MODULE Spec2Model ----
(***************************************************************************)
(* Model of the audio player streaming core (writerContextPlayerImpl):     *)
(* Play/Pause/Close/Seek under the player's mutex, the streaming goroutine *)
(* loop() with its deferred teardown, the nested forwarding goroutine, the *)
(* read() step with the context's semaphore, and the context's sticky      *)
(* error / ready flags and live-player set.                                *)
(*                                                                         *)
(* One goroutine of loop() is a "slot" s of player p.  A slot is free      *)
(* (lpc = "none") until Play() starts a goroutine in it and again after    *)
(* that goroutine has returned.  The source is counted in chunks: each     *)
(* successful src.Read delivers the next chunk, which gets the next chunk  *)
(* number of its player.                                                   *)
(*                                                                         *)
(* Two further specifications look inside one read(): SpecRead follows the *)
(* bytes of one player (source offset, p.buf, p.pos, Seek), SpecVolume the *)
(* volume scaling of one 16-bit sample.                                    *)
(***************************************************************************)
EXTENDS Integers, Sequences, FiniteSets

\* ---- bounds of the model -------------------------------------------------
\* goroutines of loop() of one player that may be alive at the same time
MaxLoops   == 2
\* length of each player's source, in chunks
SrcLen     == 2
\* total number of Play/Pause/Close/Seek calls made by the application
MaxCalls   == 3

\* ---- the context -----------------------------------------------------------
\* capacity of the channel Context.semaphore
SemCap == 1
\* one player more than the semaphore has slots: the players of one context
\* contend for the semaphore
NumPlayers == SemCap + 1

Players == 1..NumPlayers
Slots   == 1..MaxLoops

VARIABLES
  inited,            \* Context.inited is closed (the before-update hook ran)
  ctxErr,            \* Context.err is set (hasError)
  ready,             \* Context.ready
  ctxPlayers,        \* Context.players
  semaphore,         \* number of elements in the channel Context.semaphore
  playing,           \* p.playing
  closedExplicitly,  \* p.closedExplicitly
  isLoopActive,      \* p.isLoopActive
  m,                 \* p.m: 0 when unlocked, else the slot whose read() holds it
  srcpos,            \* read offset of p.src, in chunks
  lpc,               \* position of the goroutine loop() in slot s
  lbuf,              \* chunk held by loop() between read() and ch <- buf
  chClosed,          \* the handoff channel ch of slot s is closed
  fpc,               \* position of the forwarding goroutine of slot s
  fbuf,              \* chunk received by the forwarding goroutine
  w,                 \* device writer of slot s: "none", "open", "closed"
  calls,             \* number of application calls made so far
  closeLog,          \* results of the Close() calls on p, TRUE = error returned
  produced,          \* number of chunks read() has returned for p
  armed,             \* a Play() returned with data left and no Pause/Close since
  bytesPerSample,    \* the package constant bytesPerSample
  srcSize,           \* length of p.src in bytes
  srcOff,            \* read offset of p.src in bytes
  buf,               \* p.buf, as runs of source bytes
  pos,               \* p.pos
  rd,                \* the last call of read() or Seek() and what it returned
  out,               \* the chunks read() returned since the last Seek(), concatenated
  base,              \* p.pos as the last successful Seek() left it
  nout,              \* number of chunks read() returned
  shorts,            \* number of source reads that delivered less than they could
  seeks,             \* number of Seek() calls
  volume,            \* p.volume, as <<numerator, denominator>>
  sample,            \* the two bytes of one sample of a chunk before scaling
  scaled             \* the same two bytes after scaling, <<>> before

ctxVars    == <<inited, ctxErr, ready, ctxPlayers, semaphore>>
playerVars == <<playing, closedExplicitly, isLoopActive, m, srcpos>>
loopVars   == <<lpc, lbuf, chClosed, fpc, fbuf, w>>
histVars   == <<calls, closeLog, produced, armed>>
byteVars   == <<bytesPerSample, srcSize, srcOff, buf, pos, rd, out, base, nout, shorts, seeks>>
volVars    == <<volume, sample, scaled>>
sideVars   == <<byteVars, volVars>>
vars       == <<ctxVars, playerVars, loopVars, histVars, sideVars>>

\* f with the entry of player p, slot s replaced by v
Put(f, p, s, v) == [f EXCEPT ![p][s] = v]

\* ---- Context: modelled from its specification -----------------------------
\* setError(err): the error is recorded and never cleared
setError(err) == TRUE
hasError == ctxErr
addPlayer(set, p) == set \cup {p}
removePlayer(set, p) == set \ {p}

\* ---- bytes and samples ---------------------------------------------------
\* read, line 159
bufSize == 2048
\* bytesPerSample is declared outside this file: 2 bytes for one 16-bit
\* value, 4 bytes for one 16-bit value on each of two channels
SampleSizes == {2, 4}
\* volumes whose product with a 16-bit value is exact in float64
Volumes == {<<0, 1>>, <<1, 2>>, <<1, 1>>}
Bytes == 0..255

\* the streaming specification counts chunks: no bytes, no sample
NoBytes ==
  /\ bytesPerSample = CHOOSE b \in SampleSizes : TRUE
  /\ srcSize = 0
  /\ srcOff = 0
  /\ buf = <<>>
  /\ pos = 0
  /\ rd = [op |-> "none", n |-> 0, err |-> "nil", ok |-> TRUE, chunk |-> <<>>]
  /\ out = <<>>
  /\ base = 0
  /\ nout = 0
  /\ shorts = 0
  /\ seeks = 0
NoSample ==
  /\ volume = <<1, 1>>
  /\ sample = <<0, 0>>
  /\ scaled = <<>>

Init ==
  /\ NoBytes
  /\ NoSample
  /\ inited = FALSE
  /\ ctxErr = FALSE
  /\ ready = FALSE
  /\ ctxPlayers = {}
  /\ semaphore = 0
  /\ playing = [p \in Players |-> FALSE]
  /\ closedExplicitly = [p \in Players |-> FALSE]
  /\ isLoopActive = [p \in Players |-> FALSE]
  /\ m = [p \in Players |-> 0]
  /\ srcpos = [p \in Players |-> 0]
  /\ lpc = [p \in Players |-> [s \in Slots |-> "none"]]
  /\ lbuf = [p \in Players |-> [s \in Slots |-> 0]]
  /\ chClosed = [p \in Players |-> [s \in Slots |-> FALSE]]
  /\ fpc = [p \in Players |-> [s \in Slots |-> "none"]]
  /\ fbuf = [p \in Players |-> [s \in Slots |-> 0]]
  /\ w = [p \in Players |-> [s \in Slots |-> "none"]]
  /\ calls = 0
  /\ closeLog = [p \in Players |-> <<>>]
  /\ produced = [p \in Players |-> 0]
  /\ armed = [p \in Players |-> FALSE]

\* the hook registered by newWriterContext closes the channel, once
FireInit ==
  /\ ~inited
  /\ inited' = TRUE
  /\ UNCHANGED <<ctxErr, ready, ctxPlayers, semaphore, playerVars, loopVars, histVars>>
  /\ UNCHANGED sideVars

\* ---- application calls ---------------------------------------------------
\* the lowest free goroutine slot of player p
FreeSlot(p) == CHOOSE s \in Slots : lpc[p][s] = "none" /\ \A t \in Slots : t < s => lpc[p][t] # "none"
HasFreeSlot(p) == \E s \in Slots : lpc[p][s] = "none"

\* Play, line 83: the player was closed explicitly
PlayOnClosedNever(p) == FALSE
PlayOnClosed(p) == closedExplicitly[p]

\* Play, line 89: a goroutine is started only when none is active
NeedsNewLoopAlways(p) == TRUE
NeedsNewLoop(p) == ~isLoopActive[p]

Play(p) ==
  /\ calls < MaxCalls
  /\ m[p] = 0
  /\ calls' = calls + 1
  /\ IF PlayOnClosed(p)
       THEN /\ ctxErr' = setError(ctxErr)
            /\ UNCHANGED <<playing, isLoopActive, ctxPlayers, lpc, armed>>
       ELSE /\ playing' = [playing EXCEPT ![p] = TRUE]
            /\ armed' = [armed EXCEPT ![p] = ~ctxErr /\ srcpos[p] < SrcLen]
            /\ UNCHANGED ctxErr
            /\ IF NeedsNewLoop(p)
                 THEN /\ HasFreeSlot(p)
                      /\ isLoopActive' = [isLoopActive EXCEPT ![p] = TRUE]
                      /\ ctxPlayers' = addPlayer(ctxPlayers, p)
                      /\ lpc' = Put(lpc, p, FreeSlot(p), "start")
                 ELSE UNCHANGED <<isLoopActive, ctxPlayers, lpc>>
  /\ UNCHANGED <<inited, ready, semaphore, closedExplicitly, m, srcpos>>
  /\ UNCHANGED <<lbuf, chClosed, fpc, fbuf, w, closeLog, produced>>
  /\ UNCHANGED sideVars

Pause(p) ==
  /\ calls < MaxCalls
  /\ m[p] = 0
  /\ calls' = calls + 1
  /\ playing' = [playing EXCEPT ![p] = FALSE]
  /\ armed' = [armed EXCEPT ![p] = FALSE]
  /\ UNCHANGED <<ctxVars, closedExplicitly, isLoopActive, m, srcpos, loopVars>>
  /\ UNCHANGED <<closeLog, produced>>
  /\ UNCHANGED sideVars

\* Close, line 72
AlreadyClosedNever(p) == FALSE
AlreadyClosed(p) == closedExplicitly[p]

Close(p) ==
  /\ calls < MaxCalls
  /\ m[p] = 0
  /\ calls' = calls + 1
  /\ playing' = [playing EXCEPT ![p] = FALSE]
  /\ armed' = [armed EXCEPT ![p] = FALSE]
  /\ IF AlreadyClosed(p)
       THEN /\ closeLog' = [closeLog EXCEPT ![p] = Append(@, TRUE)]
            /\ UNCHANGED closedExplicitly
       ELSE /\ closeLog' = [closeLog EXCEPT ![p] = Append(@, FALSE)]
            /\ closedExplicitly' = [closedExplicitly EXCEPT ![p] = TRUE]
  /\ UNCHANGED <<ctxVars, isLoopActive, m, srcpos, loopVars>>
  /\ UNCHANGED produced
  /\ UNCHANGED sideVars

\* Seek to chunk offset o; seeker.Seek may fail, and then nothing changes
Seek(p, o) ==
  /\ calls < MaxCalls
  /\ m[p] = 0
  /\ calls' = calls + 1
  /\ \/ srcpos' = [srcpos EXCEPT ![p] = o]
     \/ UNCHANGED srcpos
  /\ UNCHANGED <<ctxVars, playing, closedExplicitly, isLoopActive, m, loopVars>>
  /\ UNCHANGED <<closeLog, produced, armed>>
  /\ UNCHANGED sideVars

\* ---- the goroutine loop() ------------------------------------------------
\* lines 102-131: wait for the context, take a device writer, start forwarding
LoopStart(p, s) ==
  /\ lpc[p][s] = "start"
  /\ inited
  /\ w' = Put(w, p, s, "open")
  /\ fpc' = Put(fpc, p, s, "recv")
  /\ lpc' = Put(lpc, p, s, "read")
  /\ UNCHANGED <<ctxVars, playerVars, lbuf, chClosed, fbuf, histVars>>
  /\ UNCHANGED sideVars

\* read, lines 146-157: the conditions under which read gives up
ReadAbortsIgnoresPause(p) == hasError \/ closedExplicitly[p]
ReadAborts(p) == hasError \/ closedExplicitly[p] \/ ~playing[p]

\* line 120, defer close(ch): runs as soon as loop returns
CloseHandoffForgotten(c, p, s) == c
CloseHandoff(c, p, s) == Put(c, p, s, TRUE)

\* read, lines 143-157; on (nil, false) loop returns and close(ch) runs
ReadLock(p, s) ==
  /\ lpc[p][s] = "read"
  /\ m[p] = 0
  /\ IF ReadAborts(p)
       THEN /\ lpc' = Put(lpc, p, s, "clearFlags")
            /\ chClosed' = CloseHandoff(chClosed, p, s)
            /\ UNCHANGED m
       ELSE /\ lpc' = Put(lpc, p, s, "sem")
            /\ m' = [m EXCEPT ![p] = s]
            /\ UNCHANGED chClosed
  /\ UNCHANGED <<ctxVars, playing, closedExplicitly, isLoopActive, srcpos>>
  /\ UNCHANGED <<lbuf, fpc, fbuf, w, histVars>>
  /\ UNCHANGED sideVars

\* read, line 161: the send blocks while the channel is full
SemaphoreAlwaysFree == TRUE
SemaphoreFree == semaphore < SemCap

SemAcquire(p, s) ==
  /\ lpc[p][s] = "sem"
  /\ SemaphoreFree
  /\ semaphore' = semaphore + 1
  /\ lpc' = Put(lpc, p, s, "srcRead")
  /\ UNCHANGED <<inited, ctxErr, ready, ctxPlayers, playerVars>>
  /\ UNCHANGED <<lbuf, chClosed, fpc, fbuf, w, histVars>>
  /\ UNCHANGED sideVars

\* read, lines 162-164 and 144: src.Read has returned, the deferred release
\* of the semaphore and of the mutex run when read returns
ReadReturnsKeepsSlot(p, s) ==
  /\ lpc[p][s] = "srcRead"
  /\ UNCHANGED semaphore
  /\ m' = [m EXCEPT ![p] = 0]
  /\ UNCHANGED <<inited, ready, ctxPlayers, playing, closedExplicitly, isLoopActive>>
  /\ UNCHANGED <<fpc, fbuf, w, calls, closeLog>>
  /\ UNCHANGED sideVars

ReadReturns(p, s) ==
  /\ lpc[p][s] = "srcRead"
  /\ semaphore' = semaphore - 1
  /\ m' = [m EXCEPT ![p] = 0]
  /\ UNCHANGED <<inited, ready, ctxPlayers, playing, closedExplicitly, isLoopActive>>
  /\ UNCHANGED <<fpc, fbuf, w, calls, closeLog>>
  /\ UNCHANGED sideVars

\* read, lines 169-193: src.Read delivers the next chunk
SrcReadData(p, s) ==
  /\ ReadReturns(p, s)
  /\ srcpos[p] < SrcLen
  /\ srcpos' = [srcpos EXCEPT ![p] = @ + 1]
  /\ produced' = [produced EXCEPT ![p] = @ + 1]
  /\ lbuf' = Put(lbuf, p, s, produced[p] + 1)
  /\ lpc' = Put(lpc, p, s, "send")
  /\ UNCHANGED <<ctxErr, chClosed, armed>>

\* read, lines 170-177: io.EOF with n = 0
SrcReadEOF(p, s) ==
  /\ ReadReturns(p, s)
  /\ srcpos[p] = SrcLen
  /\ lpc' = Put(lpc, p, s, "clearFlags")
  /\ chClosed' = CloseHandoff(chClosed, p, s)
  /\ armed' = [armed EXCEPT ![p] = FALSE]
  /\ UNCHANGED <<ctxErr, srcpos, produced, lbuf>>

\* read, lines 170-174: src.Read fails with another error
SrcReadErr(p, s) ==
  /\ ReadReturns(p, s)
  /\ ctxErr' = setError(ctxErr)
  /\ lpc' = Put(lpc, p, s, "clearFlags")
  /\ chClosed' = CloseHandoff(chClosed, p, s)
  /\ UNCHANGED <<srcpos, produced, lbuf, armed>>

\* line 138 with line 123: the unbuffered handoff needs the receiver
Send(p, s) ==
  /\ lpc[p][s] = "send"
  /\ fpc[p][s] = "recv"
  /\ fbuf' = Put(fbuf, p, s, lbuf[p][s])
  /\ fpc' = Put(fpc, p, s, "got")
  /\ lbuf' = Put(lbuf, p, s, 0)
  /\ lpc' = Put(lpc, p, s, "read")
  /\ UNCHANGED <<ctxVars, playerVars, chClosed, w, histVars>>
  /\ UNCHANGED sideVars

\* lines 111-117
ClearFlagsKeepsPlaying(p, s) ==
  /\ lpc[p][s] = "clearFlags"
  /\ m[p] = 0
  /\ ctxPlayers' = removePlayer(ctxPlayers, p)
  /\ isLoopActive' = [isLoopActive EXCEPT ![p] = FALSE]
  /\ lpc' = Put(lpc, p, s, "waitW")
  /\ UNCHANGED <<inited, ctxErr, ready, semaphore, playing, closedExplicitly, m, srcpos>>
  /\ UNCHANGED <<lbuf, chClosed, fpc, fbuf, w, histVars>>
  /\ UNCHANGED sideVars

ClearFlags(p, s) ==
  /\ lpc[p][s] = "clearFlags"
  /\ m[p] = 0
  /\ playing' = [playing EXCEPT ![p] = FALSE]
  /\ ctxPlayers' = removePlayer(ctxPlayers, p)
  /\ isLoopActive' = [isLoopActive EXCEPT ![p] = FALSE]
  /\ lpc' = Put(lpc, p, s, "waitW")
  /\ UNCHANGED <<inited, ctxErr, ready, semaphore, closedExplicitly, m, srcpos>>
  /\ UNCHANGED <<lbuf, chClosed, fpc, fbuf, w, histVars>>
  /\ UNCHANGED sideVars

\* lines 106-109; the goroutine is gone afterwards and its slot is free
CloseWriterNoWait(p, s) ==
  /\ lpc[p][s] = "waitW"
  /\ lpc' = Put(lpc, p, s, "none")
  /\ fpc' = Put(fpc, p, s, "none")
  /\ w' = Put(w, p, s, "none")
  /\ chClosed' = Put(chClosed, p, s, FALSE)
  /\ UNCHANGED <<ctxVars, playerVars, lbuf, fbuf, histVars>>
  /\ UNCHANGED sideVars

CloseWriter(p, s) ==
  /\ lpc[p][s] = "waitW"
  /\ fpc[p][s] = "exited"
  /\ lpc' = Put(lpc, p, s, "none")
  /\ fpc' = Put(fpc, p, s, "none")
  /\ w' = Put(w, p, s, "none")
  /\ chClosed' = Put(chClosed, p, s, FALSE)
  /\ UNCHANGED <<ctxVars, playerVars, lbuf, fbuf, histVars>>
  /\ UNCHANGED sideVars

\* ---- the forwarding goroutine --------------------------------------------
\* line 124: w.Write is entered
FwdWriteStart(p, s) ==
  /\ fpc[p][s] = "got"
  /\ fpc' = Put(fpc, p, s, "writing")
  /\ UNCHANGED <<ctxVars, playerVars, lpc, lbuf, chClosed, fbuf, w, histVars>>
  /\ UNCHANGED sideVars

\* lines 124, 128: w.Write succeeds
FwdWriteOk(p, s) ==
  /\ fpc[p][s] = "writing"
  /\ fbuf' = Put(fbuf, p, s, 0)
  /\ ready' = TRUE
  /\ fpc' = Put(fpc, p, s, "recv")
  /\ UNCHANGED <<inited, ctxErr, ctxPlayers, semaphore, playerVars>>
  /\ UNCHANGED <<lpc, lbuf, chClosed, w, histVars>>
  /\ UNCHANGED sideVars

\* lines 124-126, 130: w.Write fails, the goroutine leaves the range loop
FwdWriteErr(p, s) ==
  /\ fpc[p][s] = "writing"
  /\ fbuf' = Put(fbuf, p, s, 0)
  /\ ctxErr' = setError(ctxErr)
  /\ fpc' = Put(fpc, p, s, "exited")
  /\ UNCHANGED <<inited, ready, ctxPlayers, semaphore, playerVars>>
  /\ UNCHANGED <<lpc, lbuf, chClosed, w, histVars>>
  /\ UNCHANGED sideVars

\* lines 123, 130: range ends on the closed channel
FwdRangeEnd(p, s) ==
  /\ fpc[p][s] = "recv"
  /\ chClosed[p][s]
  /\ fpc' = Put(fpc, p, s, "exited")
  /\ UNCHANGED <<ctxVars, playerVars, lpc, lbuf, chClosed, fbuf, w, histVars>>
  /\ UNCHANGED sideVars

\* ---- specifications ------------------------------------------------------
\* a step of the application or of the before-update hook
AppStep ==
  \/ FireInit
  \/ \E p \in Players : Play(p)
  \/ \E p \in Players : Pause(p)
  \/ \E p \in Players : Close(p)
  \/ \E p \in Players : \E o \in 0..SrcLen : Seek(p, o)

\* a step of the goroutine loop() in slot s of p, I/O succeeding
LoopStep(p, s) ==
  \/ LoopStart(p, s)
  \/ ReadLock(p, s)
  \/ SemAcquire(p, s)
  \/ SrcReadData(p, s)
  \/ SrcReadEOF(p, s)
  \/ Send(p, s)
  \/ ClearFlags(p, s)
  \/ CloseWriter(p, s)

\* a step of the forwarding goroutine in slot s of p, I/O succeeding
FwdStep(p, s) ==
  \/ FwdWriteStart(p, s)
  \/ FwdWriteOk(p, s)
  \/ FwdRangeEnd(p, s)

\* a source read or a device write fails
IOFailure(p, s) ==
  \/ SrcReadErr(p, s)
  \/ FwdWriteErr(p, s)

Next ==
  \/ AppStep
  \/ \E p \in Players : \E s \in Slots : LoopStep(p, s)
  \/ \E p \in Players : \E s \in Slots : FwdStep(p, s)
  \/ \E p \in Players : \E s \in Slots : IOFailure(p, s)

Spec == Init /\ [][Next]_vars

\* source reads and device writes succeed
NextOK ==
  \/ AppStep
  \/ \E p \in Players : \E s \in Slots : LoopStep(p, s)
  \/ \E p \in Players : \E s \in Slots : FwdStep(p, s)

\* a step of some goroutine of some pipeline
PipelineStep == \E p \in Players : \E s \in Slots : LoopStep(p, s) \/ FwdStep(p, s)

\* the Go scheduler does not stop while a goroutine can run, and src.Read and
\* w.Write return
Fairness == WF_vars(PipelineStep)

FairSpecOK == Init /\ [][NextOK]_vars /\ Fairness

\* the same scheduling, source reads and device writes may fail
FairSpec == Init /\ [][Next]_vars /\ Fairness

\* ---- read() and Seek() on bytes -------------------------------------------
\* A run of source bytes is a pair <<a, b>>: the bytes at the offsets a to
\* b-1 of the source.  A byte slice is a sequence of runs; two runs that
\* follow each other in the source are written as one.
Seg(a, b) == IF a < b THEN << <<a, b>> >> ELSE <<>>

Cat(s, t) ==
  IF s = <<>> THEN t
  ELSE IF t = <<>> THEN s
  ELSE IF s[Len(s)][2] = t[1][1]
         THEN SubSeq(s, 1, Len(s) - 1) \o << <<s[Len(s)][1], t[1][2]>> >> \o Tail(t)
         ELSE s \o t

RECURSIVE SegLen(_)
SegLen(s) == IF s = <<>> THEN 0 ELSE (s[1][2] - s[1][1]) + SegLen(Tail(s))

\* s[:k] and s[k:]
RECURSIVE Take(_, _)
Take(s, k) ==
  IF k = 0 \/ s = <<>> THEN <<>>
  ELSE IF s[1][2] - s[1][1] <= k
         THEN Cat(<<s[1]>>, Take(Tail(s), k - (s[1][2] - s[1][1])))
         ELSE << <<s[1][1], s[1][1] + k>> >>

RECURSIVE Drop(_, _)
Drop(s, k) ==
  IF k = 0 \/ s = <<>> THEN s
  ELSE IF s[1][2] - s[1][1] <= k
         THEN Drop(Tail(s), k - (s[1][2] - s[1][1]))
         ELSE << <<s[1][1] + k, s[1][2]>> >> \o Tail(s)

\* the player whose bytes are followed and the slot of its goroutine
ThePlayer == CHOOSE p \in Players : TRUE
TheSlot == CHOOSE s \in Slots : \A t \in Slots : s <= t

\* the streaming state in which read() is called for the first time: after
\* Play() on ThePlayer, the before-update hook and the start of loop()
Streaming ==
  /\ inited = TRUE
  /\ ctxErr = FALSE
  /\ ready = FALSE
  /\ ctxPlayers = {ThePlayer}
  /\ semaphore = 0
  /\ playing = [p \in Players |-> p = ThePlayer]
  /\ closedExplicitly = [p \in Players |-> FALSE]
  /\ isLoopActive = [p \in Players |-> p = ThePlayer]
  /\ m = [p \in Players |-> 0]
  /\ srcpos = [p \in Players |-> 0]
  /\ lpc = [p \in Players |-> [s \in Slots |-> IF p = ThePlayer /\ s = TheSlot THEN "read" ELSE "none"]]
  /\ lbuf = [p \in Players |-> [s \in Slots |-> 0]]
  /\ chClosed = [p \in Players |-> [s \in Slots |-> FALSE]]
  /\ fpc = [p \in Players |-> [s \in Slots |-> IF p = ThePlayer /\ s = TheSlot THEN "recv" ELSE "none"]]
  /\ fbuf = [p \in Players |-> [s \in Slots |-> 0]]
  /\ w = [p \in Players |-> [s \in Slots |-> IF p = ThePlayer /\ s = TheSlot THEN "open" ELSE "none"]]
  /\ calls = Cardinality({ThePlayer})
  /\ closeLog = [p \in Players |-> <<>>]
  /\ produced = [p \in Players |-> 0]
  /\ armed = [p \in Players |-> p = ThePlayer]


\* lengths of the source
SourceSizes == {0, 1, 3, 6, 2047, 4096, 4099}
\* byte offsets computed by Seek, line 215, before rounding
SeekOffsets == {0, 1, 2, 3, 5, 7, 2050}
\* numbers of bytes a source read may deliver when it delivers less than asked
ShortCounts == {0, 1, 2, 3, 5}
\* source reads that deliver less than they could, per run
MaxShortReads == 2
\* Seek() calls per run
MaxSeeks == 1

\* read, line 169: the slice handed to src.Read
Request == bufSize - SegLen(buf)
\* bytes left in the source
Avail == IF srcOff < srcSize THEN srcSize - srcOff ELSE 0
Most == IF Request < Avail THEN Request ELSE Avail

\* the byte counts tried
ReadCounts == {n \in ShortCounts \cup {Most - 1, Most} : 0 <= n /\ n <= Most}

\* what src.Read may return (io.Reader): n bytes, not more than asked for
\* and than there are; io.EOF only when nothing is left after them; at the
\* end of the source not (0, nil)
SrcReadReturns(n, err) ==
  /\ n \in ReadCounts
  /\ err \in {"nil", "EOF", "other"}
  /\ err = "EOF" => n = Avail
  /\ ~(Avail = 0 /\ err = "nil")
  /\ (n < Most) => shorts < MaxShortReads

\* read, lines 170-174
ReadFails(n, err) == err \notin {"nil", "EOF"}
\* read, lines 175-177
EndOfStreamAtEOF(n, err) == err = "EOF"
EndOfStream(n, err) == err = "EOF" /\ n = 0
\* read, line 179
CarryDropped(b, new) == new
Carry(b, new) == Cat(b, new)
\* read, line 181
WholeSamplesAll(l) == l
WholeSamples(l) == l - (l % bytesPerSample)
\* Seek, line 216
SeekTargetExact(o) == o
SeekTarget(o) == o - (o % bytesPerSample)

\* read() returns at its check, lines 146-157
readAborted ==
  /\ ReadAborts(ThePlayer)
  /\ rd' = [op |-> "read", n |-> 0, err |-> "none", ok |-> FALSE, chunk |-> <<>>]
  /\ UNCHANGED <<bytesPerSample, srcSize, srcOff, buf, pos, out, base, nout, shorts, seeks>>
  /\ UNCHANGED <<ctxVars, playerVars, loopVars, histVars, volVars>>

\* read() past its check, lines 159-193; src.Read returns (n, err)
read(n, err) ==
  /\ ~ReadAborts(ThePlayer)
  /\ SrcReadReturns(n, err)
  /\ srcOff' = srcOff + n
  /\ shorts' = IF n < Most THEN shorts + 1 ELSE shorts
  /\ IF ReadFails(n, err)
       THEN /\ ctxErr' = setError(ctxErr)
            /\ rd' = [op |-> "read", n |-> n, err |-> err, ok |-> FALSE, chunk |-> <<>>]
            /\ UNCHANGED <<buf, pos, out, nout>>
       ELSE IF EndOfStream(n, err)
       THEN /\ rd' = [op |-> "read", n |-> n, err |-> err, ok |-> FALSE, chunk |-> <<>>]
            /\ UNCHANGED <<ctxErr, buf, pos, out, nout>>
       ELSE LET all == Carry(buf, Seg(srcOff, srcOff + n))
                n2 == WholeSamples(SegLen(all))
            IN  /\ buf' = Drop(all, n2)
                /\ pos' = pos + SegLen(Take(all, n2))
                /\ rd' = [op |-> "read", n |-> n, err |-> err, ok |-> TRUE, chunk |-> Take(all, n2)]
                /\ out' = Cat(out, Take(all, n2))
                /\ nout' = nout + 1
                /\ UNCHANGED ctxErr
  /\ UNCHANGED <<bytesPerSample, srcSize, base, seeks>>
  /\ UNCHANGED <<inited, ready, ctxPlayers, semaphore, playerVars, loopVars, histVars, volVars>>

\* Seek, lines 209-228; o is the byte offset of line 215, the source's Seek
\* returns the offset it was given or fails
SeekOffset(o, fails) ==
  /\ seeks < MaxSeeks
  /\ seeks' = seeks + 1
  /\ IF fails
       THEN /\ rd' = [op |-> "Seek", n |-> o, err |-> "other", ok |-> FALSE, chunk |-> <<>>]
            /\ UNCHANGED <<srcOff, buf, pos, out, base>>
       ELSE /\ srcOff' = SeekTarget(o)
            /\ buf' = <<>>
            /\ pos' = SeekTarget(o)
            /\ base' = SeekTarget(o)
            /\ out' = <<>>
            /\ rd' = [op |-> "Seek", n |-> o, err |-> "nil", ok |-> TRUE, chunk |-> <<>>]
  /\ UNCHANGED <<bytesPerSample, srcSize, nout, shorts>>
  /\ UNCHANGED <<ctxVars, playerVars, loopVars, histVars, volVars>>

\* the goroutine of ThePlayer is about to call read() for the first time, on
\* a source of some length
InitRead ==
  /\ bytesPerSample \in SampleSizes
  /\ srcSize \in SourceSizes
  /\ srcOff = 0
  /\ buf = <<>>
  /\ pos = 0
  /\ rd = [op |-> "none", n |-> 0, err |-> "nil", ok |-> TRUE, chunk |-> <<>>]
  /\ out = <<>>
  /\ base = 0
  /\ nout = 0
  /\ shorts = 0
  /\ seeks = 0
  /\ NoSample
  /\ Streaming

NextRead ==
  \/ readAborted
  \/ \E n \in ReadCounts : \E err \in {"nil", "EOF", "other"} : read(n, err)
  \/ \E o \in SeekOffsets : \E fails \in BOOLEAN : SeekOffset(o, fails)

SpecRead == InitRead /\ [][NextRead]_vars

\* ---- volume scaling of one sample ------------------------------------------
\* read, line 185: the signed 16-bit value of two bytes, low byte first
Decode16Unshifted(b) == IF b[1] + b[2] >= 128 THEN b[1] + b[2] - 256 ELSE b[1] + b[2]
Decode16(b) ==
  IF b[1] + 256 * b[2] >= 32768 THEN b[1] + 256 * b[2] - 65536 ELSE b[1] + 256 * b[2]

\* read, line 186: the product is exact for the volumes of the model, the
\* conversion to int16 drops the fraction
Scale16(v, vol) ==
  IF v >= 0 THEN (v * vol[1]) \div vol[2] ELSE 0 - (((0 - v) * vol[1]) \div vol[2])

\* read, lines 187-188: byte(v16) and byte(v16 >> 8)
Encode16(v) ==
  LET u == IF v < 0 THEN v + 65536 ELSE v
  IN  <<u % 256, u \div 256>>

\* SetVolume, lines 250-259, with a volume that passes the check
SetVolume(v) ==
  /\ scaled = <<>>
  /\ volume # v
  /\ volume' = v
  /\ UNCHANGED <<sample, scaled>>
  /\ UNCHANGED <<ctxVars, playerVars, loopVars, histVars, byteVars>>

\* read, lines 184-189, for one sample of the chunk
ScaleSample ==
  /\ scaled = <<>>
  /\ scaled' = Encode16(Scale16(Decode16(sample), volume))
  /\ UNCHANGED <<volume, sample>>
  /\ UNCHANGED <<ctxVars, playerVars, loopVars, histVars, byteVars>>

\* a chunk is being scaled: any two bytes, any volume set before
InitVolume ==
  /\ volume = <<1, 1>>
  /\ sample \in Bytes \X Bytes
  /\ scaled = <<>>
  /\ NoBytes
  /\ Streaming

NextVolume ==
  \/ \E v \in Volumes : SetVolume(v)
  \/ ScaleSample

SpecVolume == InitVolume /\ [][NextVolume]_vars

\* ---- properties ----------------------------------------------------------
\* the goroutines of loop() of p that have not yet cleared isLoopActive
StreamingLoops(p) == {s \in Slots : lpc[p][s] \in {"start", "read", "sem", "srcRead", "send", "clearFlags"}}

\* the pipeline of p is gone: flags cleared, deregistered, every writer closed
Terminated(p) ==
  /\ ~playing[p]
  /\ ~isLoopActive[p]
  /\ p \notin ctxPlayers
  /\ \A s \in Slots : lpc[p][s] = "none" /\ fpc[p][s] = "none" /\ w[p][s] # "open"

\* C1: after a device write has failed in the forwarding goroutine, loop()
\* is never left blocked on the handoff ch <- buf with no receiver (so that
\* teardown runs and the pipeline terminates).
C1_HandoffNeverBlocked ==
  \A p \in Players : \A s \in Slots :
    ~(lpc[p][s] = "send" /\ fpc[p][s] = "exited")

\* C2: at most one goroutine of loop() of a player is streaming at any time,
\* and isLoopActive is true exactly while there is one.
C2_AtMostOneLoop ==
  \A p \in Players :
    /\ Cardinality(StreamingLoops(p)) <= 1
    /\ isLoopActive[p] <=> StreamingLoops(p) # {}

\* a second Play() has started a goroutine while the first one, past its
\* teardown of the flags, still waits for its forwarding goroutine
C2_Witness ==
  \E p \in Players :
    /\ lpc[p][1] = "waitW"
    /\ lpc[p][2] \in {"read", "sem", "srcRead", "send"}
    /\ isLoopActive[p]

\* C3: a Play() is never lost: after a Play() that returned on a player that
\* is not closed, with no context error and unread data in the source, and
\* with no Pause() or Close() since, the player is still playing.
C3_PlayNeverLost ==
  \A p \in Players : (armed[p] /\ ~ctxErr) => playing[p]

\* C4: the device writer is closed before isLoopActive is cleared: whenever
\* isLoopActive is false, no device writer of the player is open.
C4_WriterClosedBeforeFlags ==
  \A p \in Players : ~isLoopActive[p] => \A s \in Slots : w[p][s] # "open"

\* C5: chunks of one player are written in the order read() produced them:
\* no device write is in flight for a chunk while an earlier chunk of the
\* same player has been handed off and its write has not started.
C5_WritesInOrder ==
  \A p \in Players : \A s, t \in Slots :
    (fpc[p][s] = "writing" /\ fpc[p][t] = "got") => fbuf[p][s] < fbuf[p][t]

\* C6: at most SemCap goroutines are inside src.Read at the same time.
C6_ReadsBounded ==
  Cardinality({ps \in Players \X Slots : lpc[ps[1]][ps[2]] = "srcRead"}) <= SemCap

\* one player is inside src.Read while another waits for the semaphore
C6_Witness ==
  \E p, q \in Players : \E s, t \in Slots :
    p # q /\ lpc[p][s] = "srcRead" /\ lpc[q][t] = "sem"

\* C7: the context's error is set only by a failing source read or a failing
\* device write; no call of the application (Play() on a closed player) sets it.
C7_ErrorOnlyFromIO ==
  [][(~ctxErr /\ ctxErr') => \E p \in Players : \E s \in Slots : IOFailure(p, s)]_vars

\* C8: closed is terminal: a closed player is not playing, and from a closed
\* player no step resets closedExplicitly or starts a goroutine of loop().
C8_ClosedIsTerminal ==
  [][\A p \in Players :
       /\ closedExplicitly'[p] => ~playing'[p]
       /\ closedExplicitly[p] =>
            /\ closedExplicitly'[p]
            /\ \A s \in Slots : lpc[p][s] = "none" => lpc'[p][s] = "none"]_vars

\* Close() and then Play() on the same player, before any goroutine ran:
\* the context error can only come from that Play()
C8_Witness ==
  \E p \in Players :
    /\ closedExplicitly[p]
    /\ ctxErr
    /\ ~inited
    /\ ~playing[p]
    /\ \A s \in Slots : lpc[p][s] = "none"

\* C9: the first Close() of a player returns no error, every later one
\* returns the already-closed error.
C9_CloseGuard ==
  \A p \in Players :
    /\ \A i \in 1..Len(closeLog[p]) : closeLog[p][i] = (i > 1)
    /\ closedExplicitly[p] <=> Len(closeLog[p]) > 0

\* Close() was called twice on a player whose pipeline is active
C9_Witness ==
  \E p \in Players : Len(closeLog[p]) = 2 /\ isLoopActive[p] /\ inited

\* C10: with the context inited and I/O succeeding, a pause or close, and a
\* clean end of the source, lead to the pipeline being gone, unless a later
\* Play() resp. Seek() takes the stop condition away.
C10_StopTerminates ==
  \A p \in Players :
    /\ (inited /\ isLoopActive[p] /\ ~playing[p]) ~> (Terminated(p) \/ playing[p])
    /\ (inited /\ isLoopActive[p] /\ srcpos[p] = SrcLen) ~> (Terminated(p) \/ srcpos[p] < SrcLen)

\* the whole source was read and written and the pipeline is gone
C10_Witness ==
  \E p \in Players :
    /\ Terminated(p)
    /\ produced[p] = SrcLen
    /\ srcpos[p] = SrcLen
    /\ ready
    /\ ~ctxErr
    /\ ~closedExplicitly[p]

\* C11: once the context's error is set, no read() of any player gets past
\* its check any more (so a player starts at most the one source read that
\* had already passed it), and every pipeline is torn down: isLoopActive is
\* cleared and the player is deregistered.
C11_ErrorStopsPipelines ==
  /\ [][\A p \in Players : \A s \in Slots :
          ctxErr => ~(lpc[p][s] = "read" /\ lpc'[p][s] = "sem")]_vars
  /\ \A p \in Players :
       (ctxErr /\ inited) ~> (~isLoopActive[p] /\ p \notin ctxPlayers)

\* C16: a device writer is closed only by the goroutine that opened it, in
\* its last step, when the forwarding goroutine has finished (no write is in
\* flight and no received chunk is unwritten); a writer is opened only in a
\* free slot.
C16_WriterClosedAfterDrain ==
  [][\A p \in Players : \A s \in Slots :
       /\ (w[p][s] = "open" /\ w'[p][s] # "open") =>
            /\ lpc[p][s] = "waitW"
            /\ fpc[p][s] = "exited"
            /\ fbuf[p][s] = 0
            /\ lpc'[p][s] = "none"
       /\ (w[p][s] # "open" /\ w'[p][s] = "open") =>
            /\ w[p][s] = "none"
            /\ lpc[p][s] = "start"]_vars

\* Close() was called while a device write is in flight: the goroutine has
\* cleared the flags and waits for the write, the writer is still open
C16_Witness ==
  \E p \in Players : \E s \in Slots :
    /\ closedExplicitly[p]
    /\ lpc[p][s] = "waitW"
    /\ fpc[p][s] = "writing"
    /\ w[p][s] = "open"

\* C17: while a player is closed or not playing, none of its goroutines is
\* inside read() past the check (no source read, no semaphore slot, mutex
\* free) and no step other than Play() brings one there; no chunk is
\* produced, so only chunks produced before are still handed off and written.
C17_StopAtChunkBoundary ==
  [][\A p \in Players :
       (closedExplicitly[p] \/ ~playing[p]) =>
          /\ m[p] = 0
          /\ m'[p] = 0
          /\ produced'[p] = produced[p]
          /\ \A s \in Slots :
               /\ lpc[p][s] \notin {"sem", "srcRead"}
               /\ lpc'[p][s] \notin {"sem", "srcRead"}]_vars

\* Close() returned while a chunk produced before it waits for the handoff
C17_Witness ==
  \E p \in Players : \E s \in Slots :
    /\ closedExplicitly[p]
    /\ lpc[p][s] = "send"
    /\ lbuf[p][s] > 0

\* C18: the semaphore holds exactly one element per goroutine that is inside
\* src.Read; such a goroutine holds its player's mutex and a player has at
\* most one; nothing is held during the handoff or the device write.
C18_SlotHeldOnlyInRead ==
  /\ semaphore = Cardinality({ps \in Players \X Slots : lpc[ps[1]][ps[2]] = "srcRead"})
  /\ \A p \in Players :
       /\ Cardinality({s \in Slots : lpc[p][s] = "srcRead"}) <= 1
       /\ \A s \in Slots : lpc[p][s] = "srcRead" => m[p] = s

\* a chunk is being written and the next one waits for the handoff while the
\* semaphore is empty
C18_Witness ==
  \E p \in Players : \E s \in Slots :
    /\ semaphore = 0
    /\ lpc[p][s] = "send"
    /\ fpc[p][s] = "writing"

\* C20: while the player's mutex is free, playing implies isLoopActive,
\* closedExplicitly implies not playing, and the player is registered in the
\* context exactly when isLoopActive.
C20_FlagInvariant ==
  \A p \in Players :
    m[p] = 0 =>
      /\ playing[p] => isLoopActive[p]
      /\ closedExplicitly[p] => ~playing[p]
      /\ p \in ctxPlayers <=> isLoopActive[p]

\* one player streams while another one, closed, has been torn down
C20_Witness ==
  \E p, q \in Players :
    /\ m[p] = 0 /\ playing[p] /\ isLoopActive[p] /\ p \in ctxPlayers
    /\ closedExplicitly[q] /\ ~isLoopActive[q] /\ q \notin ctxPlayers
    /\ produced[q] > 0

\* C12: every chunk read() returns has a length that is a multiple of
\* bytesPerSample, is even and is at most bufSize, and p.buf always holds
\* fewer than bytesPerSample bytes, whatever the source reads deliver and
\* wherever Seek() is called.
C12_ChunksAligned ==
  /\ SegLen(buf) < bytesPerSample
  /\ (rd.op = "read" /\ rd.ok) =>
       /\ SegLen(rd.chunk) % bytesPerSample = 0
       /\ SegLen(rd.chunk) % 2 = 0
       /\ SegLen(rd.chunk) <= bufSize

\* after a Seek(), a chunk that holds carried-over bytes is returned and a
\* part of a sample is left over again
C12_Witness ==
  /\ rd.op = "read" /\ rd.ok
  /\ seeks > 0
  /\ rd.n < SegLen(rd.chunk)
  /\ buf # <<>>

\* C13: the chunks returned since the start (or the last Seek()) are,
\* concatenated, exactly the source bytes from offset 0 (or the sought offset)
\* up to p.pos, and p.buf holds the bytes that follow, up to the source's read
\* offset; without Seek(), at the end of the stream p.pos is the source length
\* rounded down to whole samples, and a source of 2 * bufSize bytes read in
\* full reads gives two chunks.
C13_StreamPreserved ==
  /\ out = Seg(base, pos)
  /\ seeks = 0 => base = 0
  /\ ~ctxErr => buf = Seg(pos, srcOff)
  /\ (seeks = 0 /\ rd.op = "read" /\ rd.err = "EOF" /\ rd.n = 0) =>
       /\ pos = srcSize - (srcSize % bytesPerSample)
       /\ (shorts = 0 /\ srcSize = 2 * bufSize) => nout = 2

\* the end of a source of odd length is reached after short reads, without
\* Seek(): one byte stays in p.buf
C13_Witness ==
  /\ seeks = 0
  /\ rd.op = "read" /\ rd.err = "EOF" /\ rd.n = 0
  /\ shorts > 0
  /\ buf # <<>>
  /\ pos >= 2 * bufSize

\* C14: a call of read() adds the length of the chunk it returns to p.pos
\* (nothing when it returns no chunk), so p.pos does not decrease; a Seek()
\* that succeeds sets p.pos to the byte offset rounded down to a multiple of
\* bytesPerSample and empties p.buf; a Seek() that fails changes neither.
C14_PositionTracking ==
  [][/\ rd'.op = "read" =>
          /\ pos' = pos + (IF rd'.ok THEN SegLen(rd'.chunk) ELSE 0)
          /\ pos' >= pos
     /\ (rd'.op = "Seek" /\ rd'.ok) =>
          /\ pos' = rd'.n - (rd'.n % bytesPerSample)
          /\ pos' <= rd'.n
          /\ buf' = <<>>
     /\ (rd'.op = "Seek" /\ ~rd'.ok) =>
          /\ pos' = pos
          /\ buf' = buf]_vars

\* Seek() to an offset inside a sample, behind the position reached so far
C14_Witness ==
  /\ rd.op = "Seek" /\ rd.ok
  /\ rd.n % bytesPerSample # 0
  /\ nout > 0
  /\ pos < rd.n
  /\ buf = <<>>

\* C19: when src.Read fails with an error other than io.EOF, read() sets the
\* context's error, returns no chunk and leaves p.pos and p.buf as they were,
\* also when bytes came with the error; io.EOF with no bytes ends the stream
\* and sets no error; io.EOF with bytes is handled like a read without error:
\* a chunk is returned and every byte is in the chunk or in p.buf.
C19_ReadErrors ==
  [][/\ (rd'.op = "read" /\ rd'.err = "other") =>
          /\ ctxErr'
          /\ ~rd'.ok /\ rd'.chunk = <<>>
          /\ nout' = nout /\ pos' = pos /\ buf' = buf
     /\ (rd'.op = "read" /\ rd'.err = "EOF" /\ rd'.n = 0) =>
          /\ ~ctxErr'
          /\ ~rd'.ok /\ rd'.chunk = <<>>
          /\ nout' = nout /\ pos' = pos /\ buf' = buf
     /\ (rd'.op = "read" /\ rd'.err = "EOF" /\ rd'.n > 0) =>
          /\ ~ctxErr'
          /\ rd'.ok
          /\ nout' = nout + 1
          /\ Cat(rd'.chunk, buf') = Cat(buf, Seg(srcOff, srcOff + rd'.n))]_vars

\* src.Read returned bytes together with an error while a part of a sample
\* was pending
C19_Witness ==
  /\ rd.op = "read" /\ rd.err = "other"
  /\ rd.n > 0
  /\ ctxErr
  /\ buf # <<>>

\* C15: with volume 1 the two bytes of every sample are unchanged by the
\* scaling, with volume 0 they are both zero.
C15_VolumeEndpoints ==
  scaled # <<>> =>
    /\ volume = <<1, 1>> => scaled = sample
    /\ volume = <<0, 1>> => scaled = <<0, 0>>

\* the most negative sample was scaled with volume 0
C15_Witness ==
  /\ scaled # <<>>
  /\ volume = <<0, 1>>
  /\ Decode16(sample) = 0 - 32768

====
